---- MODULE Spec2Model ----
(***************************************************************************)
(* A model of dancingpeasant/DancingPeasant.py: the class BaseFile, one    *)
(* SQLite-backed store with a history table.  The state is the fields of   *)
(* one BaseFile object, the files on disk with the tables they hold, and   *)
(* the engine handles that have been acquired and not yet closed.  Every   *)
(* public method is one action; the outcome of the last call (exception    *)
(* raised or value returned, and the prompts shown) is part of the state.  *)
(*                                                                         *)
(* The engine is SQLite through Python's sqlite3 module: DROP TABLE and    *)
(* CREATE TABLE run outside any transaction and are durable as soon as     *)
(* they have executed; an INSERT is committed by the commit() that follows *)
(* it.  The engine refusing to connect is an input of openFile and         *)
(* createNewFile.  chatter() only prints and is left out.                  *)
(***************************************************************************)
EXTENDS Integers, Sequences, FiniteSets, TLC

\* ------------------------------------------------------------------------
\* Bounds of the model
MaxHist == 3        \* most rows a history table may hold
MaxTime == 1        \* the wall clock runs over 0..MaxTime seconds
MaxLive == 2        \* most engine handles alive at once
MaxAsk == 3         \* most answers the operator types at one prompt

\* ------------------------------------------------------------------------
\* Python values: the integers and strings the program handles, and None
PyInt(n) == [ty |-> "int", n |-> n, s |-> ""]
PyStr(x) == [ty |-> "str", n |-> 0, s |-> x]
PyNone == [ty |-> "none", n |-> 0, s |-> ""]

Digits == <<"0", "1", "2", "3", "4", "5", "6", "7", "8", "9">>

RECURSIVE NatStr(_)
NatStr(n) == IF n < 10 THEN Digits[n + 1]
             ELSE NatStr(n \div 10) \o Digits[(n % 10) + 1]

\* str(x) of Python for integers and strings
str(x) == IF x.ty = "str" THEN x.s
          ELSE IF x.ty = "none" THEN "None"
          ELSE IF x.n < 0 THEN "-" \o NatStr(0 - x.n)
          ELSE NatStr(x.n)

\* ------------------------------------------------------------------------
\* The inputs the callers draw from
Paths == {"a.dp"}
TableNames == {"history", "people"}
HistoryCols == "time INT, type TEXT, event TEXT"
PeopleCols == "Id INT, Name TEXT"
BadCols == ""
ColumnSpecs == {PeopleCols, BadCols}
VersionInputs == {PyInt(1), PyStr("2.0")}
LoggedVersions == {PyStr("2.0")}
MessageInputs == {PyStr("note"), PyStr("it's")}
GateScripts == {<<"y">>, <<"q", "N">>}
Keys == {"y", "Y", "n", "N", "q", "yes", ""}
Unasked == {<<>>}

None == "None"
Unset == PyInt(-1)

\* ------------------------------------------------------------------------
\* Files and tables on disk.  LegacyFile is a database made outside this
\* class: a table people with one row, and no history table.
NoTable == [present |-> FALSE, cols |-> "", rows |-> <<>>]
NoFile == [exists |-> FALSE, tables |-> [t \in TableNames |-> NoTable]]
EmptyDb == [exists |-> TRUE, tables |-> [t \in TableNames |-> NoTable]]
LegacyFile == [exists |-> TRUE,
               tables |-> [t \in TableNames |->
                   IF t = "people"
                   THEN [present |-> TRUE, cols |-> PeopleCols,
                         rows |-> << <<7, "alice">> >>]
                   ELSE NoTable]]

\* ------------------------------------------------------------------------
\* Outcomes of a call
Raise(e) == [raised |-> e, ret |-> PyNone]
Return(v) == [raised |-> "", ret |-> v]

Call(op, fileName, version, force, tableName, columns, text) ==
    [op |-> op, fileName |-> fileName, version |-> version, force |-> force,
     tableName |-> tableName, columns |-> columns, text |-> text]

VARIABLES meta, version, connection, fs, live, clock, call, result, prompted,
          gate

vars == <<meta, version, connection, fs, live, clock, call, result, prompted,
          gate>>

\* the locals of one run of promptOnOverwrite, and where the run stands
GateIdle == [pc |-> "idle", keys |-> <<>>, option |-> "",
             minimal |-> FALSE, ret |-> FALSE]
GateEntered == [GateIdle EXCEPT !.pc = "raw_input"]

\* ------------------------------------------------------------------------
\* The dictionary self.meta
MetaInit(verbosity) == [k \in {"verbosity"} |-> PyInt(verbosity)]
\* an assignment to self.meta that is lost
MetaSet_lost(m, key, val) == m

MetaSet(m, key, val) == [k \in DOMAIN m \cup {key} |->
                            IF k = key THEN val ELSE m[k]]
MetaDel(m, key) == [k \in DOMAIN m \ {key} |-> m[k]]

Init ==
    /\ meta = MetaInit(0)
    /\ version = Unset
    /\ connection = None
    /\ fs \in [Paths -> {NoFile, LegacyFile}]
    /\ live = 0
    /\ clock = 0
    /\ call = Call("__init__", "", PyNone, FALSE, "", "", "")
    /\ result = Return(PyNone)
    /\ prompted = <<>>
    /\ gate = GateIdle

\* ------------------------------------------------------------------------
\* promptOnOverwrite: read answers until one is Y or N (in either case)
upper(c) == CASE c = "y" -> "Y"
              [] c = "n" -> "N"
              [] c = "q" -> "Q"
              [] c = "yes" -> "YES"
              [] OTHER -> c

\* the table of answers with its two values exchanged
valid_responses_swapped == [o \in {"Y", "N"} |-> o = "N"]

valid_responses == [o \in {"Y", "N"} |-> o = "Y"]

RECURSIVE promptOnOverwrite(_)
promptOnOverwrite(keys) ==
    LET option == upper(Head(keys))
    IN  IF option \in DOMAIN valid_responses
        THEN valid_responses[option]
        ELSE promptOnOverwrite(Tail(keys))

\* one consultation of the gate: what was asked about, and the answer given
Prompt(entity, entityType, answer) ==
    [entity |-> entity, entityType |-> entityType, answer |-> answer]

\* ------------------------------------------------------------------------
\* The engine: which statements it accepts
CreateAccepted(columns) == columns # BadCols
InsertAccepted(table) == table.present /\ table.cols = HistoryCols
\* the texts of the inputs that hold a single quote: pasted between quotes
\* into the INSERT statement they end the literal early and the statement
\* does not parse
ContainsQuote(text) == text \in {"it's"}
SelectVersionAccepted(table) == table.present /\ table.cols = HistoryCols

SetTable(files, path, tableName, table) ==
    [files EXCEPT ![path].tables[tableName] = table]

\* addTable with the old table dropped before the operator is asked
addTableOn_dropFirst(conn, files, tableName, columns, force, keys) ==
    LET found == files[conn].tables[tableName].present
        ask == (~force) /\ found
        asked == IF ask
                 THEN <<Prompt(tableName, "table", promptOnOverwrite(keys))>>
                 ELSE <<>>
        dropped == SetTable(files, conn, tableName, NoTable)
        created == SetTable(files, conn, tableName,
                       [present |-> TRUE, cols |-> columns, rows |-> <<>>])
    IN  IF ask /\ ~promptOnOverwrite(keys)
        THEN [files |-> dropped, raised |-> "", prompted |-> asked]
        ELSE IF CreateAccepted(columns)
        THEN [files |-> created, raised |-> "", prompted |-> asked]
        ELSE [files |-> dropped, raised |-> "DP_FileError",
              prompted |-> asked]

\* addTable with the rows of the old table carried into the new one
addTableOn_keepRows(conn, files, tableName, columns, force, keys) ==
    LET found == files[conn].tables[tableName].present
        ask == (~force) /\ found
        asked == IF ask
                 THEN <<Prompt(tableName, "table", promptOnOverwrite(keys))>>
                 ELSE <<>>
        dropped == SetTable(files, conn, tableName, NoTable)
        created == SetTable(files, conn, tableName,
                       [present |-> TRUE, cols |-> columns,
                        rows |-> files[conn].tables[tableName].rows])
    IN  IF ask /\ ~promptOnOverwrite(keys)
        THEN [files |-> files, raised |-> "", prompted |-> asked]
        ELSE IF CreateAccepted(columns)
        THEN [files |-> created, raised |-> "", prompted |-> asked]
        ELSE [files |-> dropped, raised |-> "DP_FileError",
              prompted |-> asked]

\* addTable on the file the connection conn is on
addTableOn(conn, files, tableName, columns, force, keys) ==
    LET found == files[conn].tables[tableName].present
        ask == (~force) /\ found
        asked == IF ask
                 THEN <<Prompt(tableName, "table", promptOnOverwrite(keys))>>
                 ELSE <<>>
        dropped == SetTable(files, conn, tableName, NoTable)
        created == SetTable(files, conn, tableName,
                       [present |-> TRUE, cols |-> columns, rows |-> <<>>])
    IN  IF ask /\ ~promptOnOverwrite(keys)
        THEN [files |-> files, raised |-> "", prompted |-> asked]
        ELSE IF CreateAccepted(columns)
        THEN [files |-> created, raised |-> "", prompted |-> asked]
        ELSE [files |-> dropped, raised |-> "DP_FileError",
              prompted |-> asked]

\* the row INSERT INTO history (time, type, event) VALUES (...) stores
HistoryRow_swapped(now, type, event) == <<now, event, type>>

HistoryRow(now, type, event) == <<now, type, event>>

\* _addHistory at wall-clock second now
addHistoryOn(conn, files, type, event, now) ==
    LET table == files[conn].tables["history"]
        row == HistoryRow(now, type, event)
    IN  IF conn = None
        THEN [files |-> files, raised |-> "DP_FileNotOpenException"]
        ELSE IF InsertAccepted(table) /\ ~ContainsQuote(event)
        THEN [files |-> SetTable(files, conn, "history",
                            [table EXCEPT !.rows = Append(@, row)]),
              raised |-> ""]
        ELSE [files |-> files, raised |-> "DP_FileError"]

\* the rows SELECT ... WHERE type='version' ORDER BY time DESC may put first:
\* the version rows of the greatest time; SQL leaves the order among rows of
\* equal time to the engine
FirstVersionRows(rows) ==
    LET versions == {i \in 1..Len(rows) : rows[i][2] = "version"}
    IN  {i \in versions : \A j \in versions : rows[j][1] <= rows[i][1]}

\* the outcomes of getVersion
getVersionOn(conn, files) ==
    IF conn = None
    THEN {Raise("AttributeError")}
    ELSE LET table == files[conn].tables["history"]
         IN  IF ~SelectVersionAccepted(table)
             THEN {Raise("DP_FileError")}
             ELSE IF FirstVersionRows(table.rows) = {}
             THEN {Raise("IndexError")}
             ELSE {Return(PyStr(table.rows[i][3])) :
                      i \in FirstVersionRows(table.rows)}

HistoryRows(files, path) == files[path].tables["history"].rows

\* ------------------------------------------------------------------------
\* BASIC FILE IO
openFile(fileName) ==
    \E connectOk \in (IF connection = None /\ fs[fileName].exists
                      THEN BOOLEAN ELSE {TRUE}) :
    /\ UNCHANGED gate
    /\ call' = Call("openFile", fileName, PyNone, FALSE, "", "", "")
    /\ prompted' = <<>>
    /\ IF connection # None
       THEN /\ result' = Raise("DP_FileAlreadyOpenException")
            /\ UNCHANGED <<meta, version, connection, fs, live, clock>>
       ELSE IF ~fs[fileName].exists
       THEN /\ result' = Raise("DP_FileNotFoundException")
            /\ UNCHANGED <<meta, version, connection, fs, live, clock>>
       ELSE IF ~connectOk
       THEN /\ result' = Raise("DP_FileError")
            /\ UNCHANGED <<meta, version, connection, fs, live, clock>>
       ELSE /\ live < MaxLive
            /\ connection' = fileName
            /\ live' = live + 1
            /\ meta' = MetaSet(meta, "fileName", PyStr(fileName))
            /\ \E o \in getVersionOn(fileName, fs) :
                   IF o.raised = ""
                   THEN version' = o.ret /\ result' = Return(PyNone)
                   ELSE version' = version /\ result' = o
            /\ UNCHANGED <<fs, clock>>

\* closeFile without its guard: closing a closed file resets and returns
closeFile_unguarded ==
    /\ UNCHANGED gate
    /\ call' = Call("closeFile", "", PyNone, FALSE, "", "", "")
    /\ prompted' = <<>>
    /\ live' = IF connection = None THEN live ELSE live - 1
    /\ meta' = MetaDel(meta, "fileName")
    /\ connection' = None
    /\ version' = Unset
    /\ result' = Return(PyNone)
    /\ UNCHANGED <<fs, clock>>

closeFile ==
    /\ UNCHANGED gate
    /\ call' = Call("closeFile", "", PyNone, FALSE, "", "", "")
    /\ prompted' = <<>>
    /\ IF connection = None
       THEN /\ result' = Raise("DP_FileNotOpenException")
            /\ UNCHANGED <<meta, version, connection, fs, live, clock>>
       ELSE IF "fileName" \notin DOMAIN meta
       THEN /\ result' = Raise("KeyError")
            /\ live' = live - 1
            /\ UNCHANGED <<meta, version, connection, fs, clock>>
       ELSE /\ live' = live - 1
            /\ meta' = MetaDel(meta, "fileName")
            /\ connection' = None
            /\ version' = Unset
            /\ result' = Return(PyNone)
            /\ UNCHANGED <<fs, clock>>

\* the sanity checks with the file deleted before the operator is asked
sanityChecks_removeFirst(conn, files, fileName, force, keys) ==
    LET ask == (~force) /\ conn = None /\ files[fileName].exists
        removed == [files EXCEPT ![fileName] = NoFile]
    IN  IF (~force) /\ conn # None
        THEN [raised |-> "DP_FileAlreadyOpenException", cancelled |-> FALSE,
              files |-> files, prompted |-> <<>>]
        ELSE IF ~ask
        THEN [raised |-> "", cancelled |-> FALSE,
              files |-> files, prompted |-> <<>>]
        ELSE IF ~promptOnOverwrite(keys)
        THEN [raised |-> "", cancelled |-> TRUE, files |-> removed,
              prompted |-> <<Prompt(fileName, "File", FALSE)>>]
        ELSE [raised |-> "", cancelled |-> FALSE, files |-> removed,
              prompted |-> <<Prompt(fileName, "File", TRUE)>>]

\* the sanity checks createNewFile makes before it connects
sanityChecks(conn, files, fileName, force, keys) ==
    LET ask == (~force) /\ conn = None /\ files[fileName].exists
        removed == [files EXCEPT ![fileName] = NoFile]
    IN  IF (~force) /\ conn # None
        THEN [raised |-> "DP_FileAlreadyOpenException", cancelled |-> FALSE,
              files |-> files, prompted |-> <<>>]
        ELSE IF ~ask
        THEN [raised |-> "", cancelled |-> FALSE,
              files |-> files, prompted |-> <<>>]
        ELSE IF ~promptOnOverwrite(keys)
        THEN [raised |-> "", cancelled |-> TRUE, files |-> files,
              prompted |-> <<Prompt(fileName, "File", FALSE)>>]
        ELSE [raised |-> "", cancelled |-> FALSE, files |-> removed,
              prompted |-> <<Prompt(fileName, "File", TRUE)>>]

\* the handles alive once self.connection is bound to a new handle: the
\* handle it held before is closed when that was the last reference to it,
\* and stays open when the caller still holds it
Rebind(conn, handles) == IF conn = None THEN {handles + 1}
                         ELSE {handles, handles + 1}

createNewFile(fileName, v, force) ==
    LET rejected == (~force) /\ connection # None
        fileAsk == (~force) /\ connection = None /\ fs[fileName].exists
        tableAsk == force /\ fs[fileName].tables["history"].present
    IN
    \E keys \in (IF fileAsk \/ tableAsk THEN GateScripts ELSE Unasked) :
    \E connectOk \in (IF rejected \/ (fileAsk /\ ~promptOnOverwrite(keys))
                      THEN {FALSE} ELSE BOOLEAN) :
    \E t1 \in (IF connectOk THEN clock..MaxTime ELSE {clock}) :
    \E t2 \in (IF connectOk THEN t1..MaxTime ELSE {clock}) :
    LET c == sanityChecks(connection, fs, fileName, force, keys)
        connected == IF c.files[fileName].exists THEN c.files
                     ELSE [c.files EXCEPT ![fileName] = EmptyDb]
        a == addTableOn(fileName, connected, "history", HistoryCols,
                        FALSE, keys)
        m == addHistoryOn(fileName, a.files, "message",
                          str(PyStr("file created")), t1)
        l == addHistoryOn(fileName, m.files, "version",
                          str(PyStr(str(v))), t2)
    IN
    /\ UNCHANGED gate
    /\ call' = Call("createNewFile", fileName, v, force, "", "", "")
    /\ IF c.raised # ""
       THEN /\ result' = Raise(c.raised)
            /\ prompted' = c.prompted
            /\ UNCHANGED <<meta, version, connection, fs, live, clock>>
       ELSE IF c.cancelled
       THEN /\ result' = Return(PyNone)
            /\ prompted' = c.prompted
            /\ fs' = c.files
            /\ UNCHANGED <<meta, version, connection, live, clock>>
       ELSE IF ~connectOk
       THEN /\ result' = Raise("DP_FileError")
            /\ prompted' = c.prompted
            /\ fs' = c.files
            /\ UNCHANGED <<meta, version, connection, live, clock>>
       ELSE /\ connection' = fileName
            /\ live' \in {h \in Rebind(connection, live) : h <= MaxLive}
            /\ meta' = MetaSet(meta, "fileName", PyStr(fileName))
            /\ prompted' = c.prompted \o a.prompted
            /\ UNCHANGED version
            /\ IF a.raised # ""
               THEN /\ fs' = a.files
                    /\ result' = Raise(a.raised)
                    /\ UNCHANGED clock
               ELSE IF m.raised # ""
               THEN /\ fs' = m.files
                    /\ result' = Raise(m.raised)
                    /\ clock' = t1
               ELSE /\ fs' = l.files
                    /\ result' = IF l.raised # "" THEN Raise(l.raised)
                                 ELSE Return(PyNone)
                    /\ clock' = t2
            /\ Len(HistoryRows(fs', fileName)) <= MaxHist

\* ------------------------------------------------------------------------
\* TABLE MANIPULATION
addTable(tableName, columns, force) ==
    \E keys \in (IF connection # None /\ (~force)
                     /\ fs[connection].tables[tableName].present
                 THEN GateScripts ELSE Unasked) :
    /\ UNCHANGED gate
    /\ call' = Call("addTable", "", PyNone, force, tableName, columns, "")
    /\ IF connection = None
       THEN /\ result' = Raise("DP_FileNotOpenException")
            /\ prompted' = <<>>
            /\ UNCHANGED <<meta, version, connection, fs, live, clock>>
       ELSE LET a == addTableOn(connection, fs, tableName, columns,
                                force, keys)
            IN  /\ fs' = a.files
                /\ prompted' = a.prompted
                /\ result' = IF a.raised # "" THEN Raise(a.raised)
                             ELSE Return(PyNone)
                /\ UNCHANGED <<meta, version, connection, live, clock>>

dropTable(tableName, force) ==
    /\ UNCHANGED gate
    /\ call' = Call("dropTable", "", PyNone, force, tableName, "", "")
    /\ prompted' = <<>>
    /\ result' = Return(PyNone)
    /\ UNCHANGED <<meta, version, connection, fs, live, clock>>

\* ------------------------------------------------------------------------
\* HISTORY
_addHistory(op, type, event) ==
    \E now \in (IF connection = None THEN {clock} ELSE clock..MaxTime) :
    LET h == addHistoryOn(connection, fs, type, event, now)
    IN  /\ call' = Call(op, "", PyNone, FALSE, "", "", event)
        /\ prompted' = <<>>
        /\ fs' = h.files
        /\ result' = IF h.raised # "" THEN Raise(h.raised)
                     ELSE Return(PyNone)
        /\ clock' = IF connection = None THEN clock ELSE now
        /\ connection # None => Len(HistoryRows(fs', connection)) <= MaxHist
        /\ UNCHANGED <<meta, version, connection, live, gate>>

logMessage(message) == _addHistory("logMessage", "message", str(message))

logWarning(warning) == _addHistory("logWarning", "warning", str(warning))

logError(error) == _addHistory("logError", "error", str(error))

logVersion(v) == _addHistory("logVersion", "version", str(v))

getVersion ==
    /\ UNCHANGED gate
    /\ call' = Call("getVersion", "", PyNone, FALSE, "", "", "")
    /\ prompted' = <<>>
    /\ result' \in getVersionOn(connection, fs)
    /\ UNCHANGED <<meta, version, connection, fs, live, clock>>

\* ------------------------------------------------------------------------
Next ==
    \/ \E f \in Paths : openFile(f)
    \/ closeFile
    \/ \E f \in Paths, v \in VersionInputs, force \in BOOLEAN :
           createNewFile(f, v, force)
    \/ \E t \in TableNames, c \in ColumnSpecs, force \in BOOLEAN :
           addTable(t, c, force)
    \/ \E t \in TableNames : dropTable(t, FALSE)
    \/ \E m \in MessageInputs : logMessage(m)
    \/ logWarning(PyStr("careful"))
    \/ logError(PyStr("broken"))
    \/ \E v \in LoggedVersions : logVersion(v)
    \/ getVersion

Spec == Init /\ [][Next]_vars

\* ------------------------------------------------------------------------
\* promptOnOverwrite one step at a time: a run of the gate on a closed store
InitPrompt ==
    /\ meta = MetaInit(0)
    /\ version = Unset
    /\ connection = None
    /\ fs = [f \in Paths |-> LegacyFile]
    /\ live = 0
    /\ clock = 0
    /\ call = Call("promptOnOverwrite", "a.dp", PyNone, FALSE, "", "", "")
    /\ result = Return(PyNone)
    /\ prompted = <<>>
    /\ gate = GateEntered

\* the operator answers the question; the answer is upper-cased
raw_input(key) ==
    /\ gate.pc = "raw_input"
    /\ Len(gate.keys) < MaxAsk
    /\ gate' = [gate EXCEPT !.pc = "test", !.keys = Append(@, key),
                            !.option = upper(key)]
    /\ UNCHANGED <<meta, version, connection, fs, live, clock, call,
                   result, prompted>>

\* the answer is looked up: return its value, or complain and ask again
testOption ==
    /\ gate.pc = "test"
    /\ IF gate.option \in DOMAIN valid_responses
       THEN gate' = [gate EXCEPT !.pc = "returned",
                                 !.ret = valid_responses[gate.option]]
       ELSE gate' = [gate EXCEPT !.pc = "raw_input", !.minimal = TRUE]
    /\ UNCHANGED <<meta, version, connection, fs, live, clock, call,
                   result, prompted>>

NextPrompt ==
    \/ \E key \in Keys : raw_input(key)
    \/ testOption

\* the program keeps running; the operator may stay silent for ever
SpecPrompt == InitPrompt /\ [][NextPrompt]_vars /\ WF_vars(testOption)

TypeOK ==
    /\ connection \in Paths \cup {None}
    /\ live \in 0..MaxLive
    /\ clock \in 0..MaxTime

\* ------------------------------------------------------------------------
\* Properties

IsPrefix(s, t) == Len(s) <= Len(t) /\ SubSeq(t, 1, Len(s)) = s

Succeeded == result.raised = ""

\* C1: the store is either Closed (no connection) or Open (a connection to
\* one file); openFile on an Open store raises DP_FileAlreadyOpenException,
\* closeFile on a Closed store raises DP_FileNotOpenException, and both leave
\* connection, version and meta as they were.
C1_IllegalTransitionsRejected ==
    [][ /\ (connection' = None) # (connection' \in Paths)
        /\ (call'.op = "openFile" /\ connection # None) =>
               /\ result'.raised = "DP_FileAlreadyOpenException"
               /\ UNCHANGED <<connection, version, meta>>
        /\ (call'.op = "closeFile" /\ connection = None) =>
               /\ result'.raised = "DP_FileNotOpenException"
               /\ UNCHANGED <<connection, version, meta>>
      ]_vars

\* C1 witness: openFile was refused on a store that is open with its version
\* resolved.
C1_Witness ==
    /\ call.op = "openFile"
    /\ result.raised = "DP_FileAlreadyOpenException"
    /\ connection # None
    /\ version # Unset

\* C2: an openFile on a Closed store that fails for whatever reason leaves
\* the store Closed: no connection, version unset, no fileName recorded, and
\* the files on disk as they were.
C2_FailedOpenStaysClosed ==
    [][ (call'.op = "openFile" /\ connection = None /\ result'.raised # "") =>
            /\ connection' = None
            /\ version' = Unset
            /\ "fileName" \notin DOMAIN meta'
            /\ fs' = fs
      ]_vars

\* C3: the store holds at most one live engine handle, and holds none when
\* it has no connection: every handle acquired is released by closeFile;
\* and createNewFile on an Open store, whatever force is, raises
\* DP_FileAlreadyOpenException and leaves the connection, the handles, the
\* files, meta and version as they were.
C3_OneLiveConnection ==
    /\ [](live <= 1 /\ ((connection = None) => (live = 0)))
    /\ [][ (call'.op = "createNewFile" /\ connection # None) =>
               /\ result'.raised = "DP_FileAlreadyOpenException"
               /\ UNCHANGED <<connection, live, fs, meta, version>>
         ]_vars

\* C4: the history log of every file is append-only: the rows at each state
\* are a prefix of the rows at the next.
C4_HistoryAppendOnly ==
    [][ \A p \in Paths : IsPrefix(HistoryRows(fs, p), HistoryRows(fs', p)) ]_vars

\* C5: right after a successful logVersion(b), getVersion returns b's
\* payload, whatever the timestamps of the version entries before it.
C5_LatestVersionWins ==
    (call.op = "logVersion" /\ Succeeded) =>
        getVersionOn(connection, fs) = {Return(PyStr(call.text))}

\* C6: the cached version is the unset sentinel exactly when the store is
\* Closed.
C6_VersionUnsetIffClosed ==
    (version = Unset) <=> (connection = None)

\* C7: a successful createNewFile(path, v, force=False) on a Closed store and
\* a path with no file leaves the store Open on path, the history log being
\* exactly a 'message' entry "file created" followed by a 'version' entry
\* str(v), and getVersion then returns str(v).
C7_FreshCreateHistory ==
    [][ (/\ call'.op = "createNewFile"
         /\ ~call'.force
         /\ connection = None
         /\ ~fs[call'.fileName].exists
         /\ result'.raised = "") =>
            LET rows == HistoryRows(fs', call'.fileName)
            IN  /\ connection' = call'.fileName
                /\ Len(rows) = 2
                /\ rows[1][2] = "message" /\ rows[1][3] = "file created"
                /\ rows[2][2] = "version" /\ rows[2][3] = str(call'.version)
                /\ getVersionOn(connection', fs') =
                       {Return(PyStr(str(call'.version)))}
      ]_vars

\* C7 witness: createNewFile(path, 1, force=False) has just succeeded without
\* a prompt, and the history holds the creation message and version "1".
C7_Witness ==
    /\ call.op = "createNewFile"
    /\ ~call.force
    /\ call.version = PyInt(1)
    /\ Succeeded
    /\ prompted = <<>>
    /\ connection = call.fileName
    /\ live = 1
    /\ Len(HistoryRows(fs, call.fileName)) = 2
    /\ HistoryRows(fs, call.fileName)[2][3] = "1"

\* C8: a createNewFile or addTable called with force=True never consults the
\* confirmation gate.
C8_ForceNeverPrompts ==
    (call.op \in {"createNewFile", "addTable"} /\ call.force) =>
        prompted = <<>>

\* C9: createNewFile(path, v, force=False) on a Closed store, a file existing
\* at path and the gate declining, returns None and changes nothing: the
\* files on disk, connection, version, meta and the live handles stay.
C9_DeclinedCreateIsNoOp ==
    [][ (/\ call'.op = "createNewFile"
         /\ ~call'.force
         /\ connection = None
         /\ fs[call'.fileName].exists
         /\ prompted' # <<>>
         /\ ~prompted'[1].answer) =>
            /\ result' = Return(PyNone)
            /\ prompted' = <<Prompt(call'.fileName, "File", FALSE)>>
            /\ fs' = fs
            /\ connection' = None
            /\ version' = Unset
            /\ meta' = meta
            /\ live' = live
      ]_vars

\* C9 witness: createNewFile was declined at the file prompt, and the file
\* that was in the way still holds its table and row.
C9_Witness ==
    /\ call.op = "createNewFile"
    /\ ~call.force
    /\ prompted = <<Prompt(call.fileName, "File", FALSE)>>
    /\ Succeeded
    /\ connection = None
    /\ fs[call.fileName].tables["people"].rows = << <<7, "alice">> >>

\* C10: addTable(name, cols, force=False) on an Open store, the table
\* existing and the gate denying, returns None and changes nothing: every
\* table of every file, connection, version, meta and the live handles stay.
C10_DeniedAddTableIsNoOp ==
    [][ (/\ call'.op = "addTable"
         /\ ~call'.force
         /\ connection # None
         /\ fs[connection].tables[call'.tableName].present
         /\ prompted' # <<>>
         /\ ~prompted'[1].answer) =>
            /\ result' = Return(PyNone)
            /\ prompted' = <<Prompt(call'.tableName, "table", FALSE)>>
            /\ fs' = fs
            /\ UNCHANGED <<connection, version, meta, live>>
      ]_vars

\* C10 witness: addTable("people", ...) was denied at the table prompt and
\* the table still holds the row it held.
C10_Witness ==
    /\ call.op = "addTable"
    /\ call.tableName = "people"
    /\ ~call.force
    /\ prompted = <<Prompt("people", "table", FALSE)>>
    /\ Succeeded
    /\ connection # None
    /\ fs[connection].tables["people"].rows = << <<7, "alice">> >>

\* C11: the replace step of addTable is atomic: when the engine fails during
\* it the call raises DP_FileError and every table of the file, the one
\* being replaced included, is as it was before the call.
C11_ReplaceIsAtomic ==
    [][ (call'.op = "addTable" /\ connection # None
         /\ result'.raised # "") =>
            /\ result'.raised = "DP_FileError"
            /\ fs' = fs
      ]_vars

LogOps == {"logMessage", "logWarning", "logError", "logVersion"}

\* C12: addTable, dropTable and the four history appenders called on a
\* Closed store each raise DP_FileNotOpenException and change nothing.
C12_ClosedStoreRejects ==
    [][ (call'.op \in {"addTable", "dropTable"} \cup LogOps
         /\ connection = None) =>
            /\ result'.raised = "DP_FileNotOpenException"
            /\ UNCHANGED <<meta, version, connection, fs, live>>
      ]_vars

\* C13: on an Open store, once addTable(name, cols) has made the table and
\* dropTable(name) has been called, addTable(name, cols, force=False)
\* succeeds without consulting the gate and leaves the table present with
\* cols and no rows.  The state before the step is the one the first two
\* calls leave on a file with its history table: the last call was
\* dropTable(name), name is a caller's table, and whatever is left of the
\* table is as addTable(name, cols) made it.
C13_AddDropAdd ==
    [][ (/\ call.op = "dropTable"
         /\ result.raised = ""
         /\ connection # None
         /\ call.tableName # "history"
         /\ fs[connection].tables["history"].present
         /\ call'.op = "addTable"
         /\ call'.tableName = call.tableName
         /\ ~call'.force
         /\ call'.columns # BadCols
         /\ fs[connection].tables[call.tableName] \in
                {NoTable, [present |-> TRUE, cols |-> call'.columns,
                           rows |-> <<>>]}) =>
            /\ result' = Return(PyNone)
            /\ prompted' = <<>>
            /\ fs'[connection].tables[call.tableName] =
                   [present |-> TRUE, cols |-> call'.columns, rows |-> <<>>]
      ]_vars

\* C14: getVersion on a Closed store raises DP_FileNotOpenException; on an
\* Open store whose history holds no 'version' entry it raises the dedicated
\* NoVersionRecorded error; it never returns the unset sentinel and never
\* lets an unrelated exception escape.
C14_GetVersionErrors ==
    (call.op = "getVersion") =>
        /\ (connection = None) =>
               result.raised = "DP_FileNotOpenException"
        /\ (/\ connection # None
            /\ SelectVersionAccepted(fs[connection].tables["history"])
            /\ \A i \in 1..Len(HistoryRows(fs, connection)) :
                   HistoryRows(fs, connection)[i][2] # "version") =>
               result.raised = "NoVersionRecorded"
        /\ result.raised \in {"", "DP_FileNotOpenException",
                              "NoVersionRecorded", "DP_FileError"}
        /\ result.ret # Unset

LogKind == [logMessage |-> "message", logWarning |-> "warning",
            logError |-> "error", logVersion |-> "version"]

\* C15: on an Open store with its history table in place, every call of
\* logMessage, logWarning, logError or logVersion returns having appended
\* exactly one entry after the entries already there, of the wrapper's kind
\* and with the given text as payload.
C15_LogAppendsOneEntry ==
    [][ (/\ call'.op \in LogOps
         /\ connection # None
         /\ fs[connection].tables["history"].present
         /\ fs[connection].tables["history"].cols = HistoryCols) =>
            LET old == HistoryRows(fs, connection)
                new == HistoryRows(fs', connection)
            IN  /\ result' = Return(PyNone)
                /\ Len(new) = Len(old) + 1
                /\ IsPrefix(old, new)
                /\ new[Len(new)][2] = LogKind[call'.op]
                /\ new[Len(new)][3] = call'.text
      ]_vars

VersionRows(rows) == {i \in 1..Len(rows) : rows[i][2] = "version"}

\* the payload of the 'version' entry written last
LastVersionWritten(rows) ==
    rows[CHOOSE i \in VersionRows(rows) :
             \A j \in VersionRows(rows) : j <= i][3]

\* C16: history and version survive a session: closeFile leaves the files
\* as they are, and an openFile that succeeds on a Closed store, the file
\* holding a history table with a 'version' entry, leaves the history as it
\* was written and caches the payload of the 'version' entry written last.
C16_SessionRoundTrip ==
    [][ /\ (call'.op = "closeFile") => (fs' = fs)
        /\ (/\ call'.op = "openFile"
            /\ connection = None
            /\ fs[call'.fileName].tables["history"].present
            /\ fs[call'.fileName].tables["history"].cols = HistoryCols
            /\ VersionRows(HistoryRows(fs, call'.fileName)) # {}
            /\ result'.raised = "") =>
               /\ fs' = fs
               /\ connection' = call'.fileName
               /\ version' = PyStr(LastVersionWritten(
                                       HistoryRows(fs, call'.fileName)))
      ]_vars

\* the gate was consulted in the last call and said no
Declined(asked) == asked # <<>> /\ ~asked[1].answer

\* C17 as claimed: every addTable on an Open store consults the gate exactly
\* when force is false and the table existed, and unless the gate declines
\* the table exists afterwards with exactly the given columns and no rows.
C17_ProceedingReplaces ==
    [][ (call'.op = "addTable" /\ connection # None) =>
            LET existed == fs[connection].tables[call'.tableName].present
            IN  /\ (prompted' # <<>>) <=> ((~call'.force) /\ existed)
                /\ (~Declined(prompted')) =>
                       fs'[connection].tables[call'.tableName] =
                           [present |-> TRUE, cols |-> call'.columns,
                            rows |-> <<>>]
      ]_vars

\* C17 amended: every addTable on an Open store consults the gate exactly
\* when force is false and the table existed, and when the gate does not
\* decline and the call returns without raising, the table exists
\* afterwards with exactly the given columns and no rows.
C17_ReturningReplaces ==
    [][ (call'.op = "addTable" /\ connection # None) =>
            LET existed == fs[connection].tables[call'.tableName].present
            IN  /\ (prompted' # <<>>) <=> ((~call'.force) /\ existed)
                /\ (~Declined(prompted') /\ result'.raised = "") =>
                       fs'[connection].tables[call'.tableName] =
                           [present |-> TRUE, cols |-> call'.columns,
                            rows |-> <<>>]
      ]_vars

\* C17 witness: addTable("people", cols, force=False) found the table, the
\* gate accepted, and the table now has the new columns and no rows.
C17_Witness ==
    /\ call.op = "addTable"
    /\ call.tableName = "people"
    /\ ~call.force
    /\ prompted = <<Prompt("people", "table", TRUE)>>
    /\ Succeeded
    /\ connection # None
    /\ fs[connection].tables["people"] =
           [present |-> TRUE, cols |-> call.columns, rows |-> <<>>]

\* the answers that, upper-cased, are 'Y' or 'N'
ValidKey(key) == upper(key) \in {"Y", "N"}
LastKey == gate.keys[Len(gate.keys)]

\* C18: the gate returns only on an answer that is 'Y' or 'N' in either
\* case, every answer before it was neither, the value returned is True
\* exactly for 'Y' and False exactly for 'N', while it keeps asking every
\* answer so far was invalid, and a valid answer always leads to a return.
C18_GateReturnsOnValidAnswer ==
    /\ [](gate.pc = "returned" =>
            /\ gate.keys # <<>>
            /\ ValidKey(LastKey)
            /\ \A i \in 1..(Len(gate.keys) - 1) : ~ValidKey(gate.keys[i])
            /\ gate.ret <=> (upper(LastKey) = "Y")
            /\ (~gate.ret) <=> (upper(LastKey) = "N")
            /\ gate.ret = promptOnOverwrite(gate.keys))
    /\ [](gate.pc = "raw_input" =>
            /\ \A i \in 1..Len(gate.keys) : ~ValidKey(gate.keys[i])
            /\ gate.minimal <=> (gate.keys # <<>>))
    /\ ((gate.pc = "test" /\ ValidKey(LastKey)) ~> (gate.pc = "returned"))

\* C18 witness: the operator was asked again after an invalid answer, then
\* answered n or N, and the gate returned False.
C18_Witness ==
    /\ gate.pc = "returned"
    /\ Len(gate.keys) >= 2
    /\ gate.minimal
    /\ upper(LastKey) = "N"
    /\ ~gate.ret

\* C19: in every reachable state meta holds the key "fileName" exactly when
\* connection is not None, and no closeFile has failed on deleting it.
C19_FileNameIffConnected ==
    /\ ("fileName" \in DOMAIN meta) <=> (connection # None)
    /\ (call.op = "closeFile") => (result.raised # "KeyError")

\* C19 witness: a forced createNewFile whose gate declined to replace the
\* history table has left the store connected with "fileName" in meta.
C19_Witness ==
    /\ call.op = "createNewFile"
    /\ call.force
    /\ prompted # <<>>
    /\ ~prompted[1].answer
    /\ connection # None
    /\ "fileName" \in DOMAIN meta

====
